---- MODULE Spec2Model ----
(***************************************************************************)
(* Model of the Instaloader service: the proxy pool (proxy_manager.py),    *)
(* the /insta request handler and the cleanup loop (main.py).              *)
(*                                                                         *)
(* Time is the wall clock in seconds (time.time() and datetime.now() read  *)
(* the same clock).  Proxy strings are modelled as the tuple               *)
(* <<user, password, ip, port>>, the order in which fetch_proxies formats  *)
(* them; the empty tuple stands for Python's None.                         *)
(***************************************************************************)
EXTENDS Integers, Sequences, FiniteSets, TLC

VARIABLES
    clock,          \* wall clock, seconds
    proxies_url,    \* ProxyManager.proxies_url ("" when PROXIES_URL is unset)
    proxies,        \* ProxyManager.proxies (a list)
    proxy_stats,    \* ProxyManager.proxy_stats (a dict keyed by proxy string)
    ret,            \* outcome of the last get_proxy call
    last_fetch,     \* what the last fetch_proxies call logged, and the list last loaded
    fit_times,           \* per proxy: the times of its first-fit returns (history)
    started,        \* the startup event has run
    \* the threads inside get_proxy (FastAPI runs the sync handler in a thread pool)
    tpc,            \* position of each thread in get_proxy
    tnow,           \* its local now
    tidx,           \* its position in the for loop over self.proxies
    tcur,           \* its local proxy
    ttmp,           \* the counter value loaded by its +=
    tswap,          \* its position in random.shuffle: index i, index j, the two loaded elements
    fits,           \* per proxy: the first-fit returns made so far
    calls,          \* get_proxy calls begun by the threads
    \* the request handler download_insta, per thread that runs it
    pc,             \* position of the thread's request in download_insta
    shortcode,      \* local shortcode
    attempt,        \* loop variable of the retry loop
    last_exception, \* local last_exception ("None", or the signal its message carries)
    expiry_time,    \* local expiry_time
    input_path,     \* local input_path: the *.mp4 file chosen, by its number of prefixes
    sleep_end,      \* inside time.sleep of line 133: the time the sleep ends
    response,       \* the response of the last request the thread ended: status and what the detail names
    served,         \* requests received so far
    elapsed,        \* the seconds that have passed while no thread was inside time.sleep
    \* the downloads directory
    dirs,           \* per shortcode: the directory downloads/<shortcode>
    \* cleanup_loop
    cpc,            \* position of the cleanup task
    cnow,           \* its local now
    citems,         \* the entries of DOWNLOADS_DIR.iterdir() still to visit
    centries,       \* inside shutil.rmtree: the entries listed and not yet unlinked
    wake            \* the time its sleep ends

poolVars == <<proxies_url, proxies, proxy_stats, ret, last_fetch>>
callVars == <<tpc, tnow, tidx, tcur, ttmp, tswap>>
raceVars == <<callVars, fits, calls>>
reqVars == <<pc, shortcode, attempt, last_exception, expiry_time, input_path, sleep_end,
            response, served, elapsed>>
sweepVars == <<cpc, cnow, citems, centries, wake>>
svcVars == <<reqVars, dirs, sweepVars>>
vars == <<clock, started, fit_times, poolVars, raceVars, reqVars, dirs, sweepVars>>

----------------------------------------------------------------------------
(* Bounds of the model *)

MaxPoolTicks == 2        \* how far the clock advances in the pool specification
NumThreads == 2          \* request threads that call get_proxy concurrently
MaxRaceCalls == 3        \* get_proxy calls the threads begin in total
MaxRequests == 2         \* requests the service receives
MaxRetryRequests == 1    \* requests the service receives in the specifications of the retry loop
MaxElapsed == 1          \* seconds that pass there while no thread is inside time.sleep
StoreTickStep == 3600    \* seconds that pass in one step of time in the specifications of the store
MaxSweepTicks == 1       \* steps of time that pass there during one sweep
MaxWindowTicks == 1      \* window lengths the clock advances in the window specification

(* Program constants *)

RateWindow == 60         \* seconds after which a usage window has expired
RateCeiling == 10        \* requests per window before a proxy is skipped

ClockStart == 100        \* the clock when the process starts (any value > RateWindow)
max_retries == 20        \* attempts of the retry loop
ExpiryDelay == 3600      \* timedelta(hours=1)
SleepTime == 3600        \* asyncio.sleep(3600) of the cleanup loop
MaxSleep == 3            \* random.uniform(1, 3): the longest sleep between two attempts

----------------------------------------------------------------------------
(* Proxy source: lines "ip:port:user:password", modelled by their fields *)

LineA == <<"10.0.0.1", "8000", "ua", "pa">>
LineB == <<"10.0.0.2", "8000", "ub", "pb">>
LineBad == <<"10.0.0.3", "8000", "uc">>

SourceTexts == { <<>>, <<LineA>>, <<LineA, LineB>>, <<LineA, LineA>>, <<LineBad, LineB>> }

\* the answers of the proxy source at the startup of the service
StartupTexts == { <<LineA>> }

None == <<>>

\* f"http://{user}:{password}@{ip}:{port}" from the parts ip, port, user, password
ProxyStr(parts) == <<parts[3], parts[4], parts[1], parts[2]>>

FreshStats == [last_used |-> 0, requests_this_min |-> 0]

RECURSIVE LoadLines(_, _, _)
\* the loop of fetch_proxies over the lines of the response
LoadLines(lines, plist, stats) ==
    IF lines = <<>> THEN [proxies |-> plist, proxy_stats |-> stats]
    ELSE LET parts == Head(lines) IN
         IF Len(parts) = 4
         THEN LET p == ProxyStr(parts) IN
              LoadLines(Tail(lines), Append(plist, p),
                        IF p \in DOMAIN stats THEN stats ELSE stats @@ (p :> FreshStats))
         ELSE LoadLines(Tail(lines), plist, stats)

\* the message fetch_proxies logs (warning of line 24, info of line 43, error of
\* line 45), with the list the pool was last loaded with
Logged(outcome, loaded) == [outcome |-> outcome, loaded |-> loaded]

\* variant: the list is emptied before the request is made
fetch_proxies_clearing_first(texts) ==
    /\ UNCHANGED <<proxies_url, ret>>
    /\ IF proxies_url = ""
       THEN /\ UNCHANGED <<proxies, proxy_stats>>
            /\ last_fetch' = Logged("skipped", last_fetch.loaded)
       ELSE \/ /\ proxies' = <<>>
               /\ UNCHANGED proxy_stats
               /\ last_fetch' = Logged("failed", last_fetch.loaded)
            \/ \E text \in texts :
                 LET r == LoadLines(text, <<>>, proxy_stats) IN
                 /\ proxies' = r.proxies
                 /\ proxy_stats' = r.proxy_stats
                 /\ last_fetch' = Logged("loaded", r.proxies)

\* ProxyManager.fetch_proxies: the effect on the pool, when the source answers
\* with one of texts or the request fails
fetch_proxies(texts) ==
    /\ UNCHANGED <<proxies_url, ret>>
    /\ IF proxies_url = ""
       THEN /\ UNCHANGED <<proxies, proxy_stats>>         \* lines 23-25: warning, return
            /\ last_fetch' = Logged("skipped", last_fetch.loaded)
       ELSE \/ /\ UNCHANGED <<proxies, proxy_stats>>      \* requests.get / raise_for_status raised
               /\ last_fetch' = Logged("failed", last_fetch.loaded)
            \/ \E text \in texts :
                 LET r == LoadLines(text, <<>>, proxy_stats) IN
                 /\ proxies' = r.proxies
                 /\ proxy_stats' = r.proxy_stats
                 /\ last_fetch' = Logged("loaded", r.proxies)

----------------------------------------------------------------------------
(* get_proxy *)

\* the orders random.shuffle can leave the list in
Shuffles(s) ==
    LET n == Len(s)
        bij == { f \in [1..n -> 1..n] : \A i, j \in 1..n : f[i] = f[j] => i = j }
    IN { [i \in 1..n |-> s[f[i]]] : f \in bij }

\* variant: the window has expired at the very end of its 60 seconds
WindowExpiredAtEnd(now, stats) == now - stats.last_used >= RateWindow

WindowExpired(now, stats) == now - stats.last_used > RateWindow

\* variant: a proxy at the ceiling still passes the check
BelowCeilingInclusive(stats) == stats.requests_this_min <= RateCeiling

BelowCeiling(stats) == stats.requests_this_min < RateCeiling

\* stats['requests_this_min'] += 1; stats['last_used'] = now
Used(stats, now) == [last_used |-> now, requests_this_min |-> stats.requests_this_min + 1]

\* variant: the stale counter is kept when the window has expired
ResetNever(stats, now) == stats

\* if now - stats['last_used'] > 60: stats['requests_this_min'] = 0
ResetIfExpired(stats, now) ==
    IF WindowExpired(now, stats) THEN [stats EXCEPT !.requests_this_min = 0] ELSE stats

RECURSIVE Scan(_, _, _, _)
\* the for loop of get_proxy over the shuffled list, from index i on
Scan(order, i, stats, now) ==
    IF i > Len(order)
    THEN [proxy |-> None, branch |-> "degrade", proxy_stats |-> stats]
    ELSE LET p == order[i]
             s0 == IF p \in DOMAIN stats THEN stats[p] ELSE FreshStats
             s1 == ResetIfExpired(s0, now)
             put(s) == [q \in DOMAIN stats \cup {p} |-> IF q = p THEN s ELSE stats[q]]
         IN IF BelowCeiling(s1)
            THEN [proxy |-> p, branch |-> "first_fit", proxy_stats |-> put(Used(s1, now))]
            ELSE Scan(order, i + 1, put(s1), now)

\* the counter the record of proxy p holds (0 when there is no record)
Counter(stats, p) == IF p \in DOMAIN stats THEN stats[p].requests_this_min ELSE 0

\* variant: nothing is returned when every proxy is at the ceiling
get_proxy_without_fallback ==
    /\ UNCHANGED <<proxies_url, last_fetch>>
    /\ IF proxies = <<>>
       THEN /\ ret' = [proxy |-> None, branch |-> "empty", stale |-> 0]
            /\ UNCHANGED <<proxies, proxy_stats>>
       ELSE \E order \in Shuffles(proxies) :
              LET r == Scan(order, 1, proxy_stats, clock) IN
              /\ proxies' = order
              /\ proxy_stats' = r.proxy_stats
              /\ IF r.branch = "first_fit"
                 THEN ret' = [proxy |-> r.proxy, branch |-> "first_fit",
                              stale |-> Counter(proxy_stats, r.proxy)]
                 ELSE ret' = [proxy |-> None, branch |-> "degrade", stale |-> 0]

\* ProxyManager.get_proxy, executed without interleaving: the effect on the pool
get_proxy ==
    /\ UNCHANGED <<proxies_url, last_fetch>>
    /\ IF proxies = <<>>
       THEN /\ ret' = [proxy |-> None, branch |-> "empty", stale |-> 0]
            /\ UNCHANGED <<proxies, proxy_stats>>
       ELSE \E order \in Shuffles(proxies) :
              LET r == Scan(order, 1, proxy_stats, clock) IN
              /\ proxies' = order
              /\ proxy_stats' = r.proxy_stats
              /\ IF r.branch = "first_fit"
                 THEN ret' = [proxy |-> r.proxy, branch |-> "first_fit",
                              stale |-> Counter(proxy_stats, r.proxy)]
                 ELSE \E i \in 1..Len(order) :        \* random.choice(self.proxies)
                        ret' = [proxy |-> order[i], branch |-> "degrade",
                                stale |-> Counter(proxy_stats, order[i])]

----------------------------------------------------------------------------
(* Request URLs, as sequences of characters, and the shortcode pattern *)

Https == <<"h", "t", "t", "p", "s", ":", "/", "/">>
Insta == <<"i", "n", "s", "t", "a", "g", "r", "a", "m", ".", "c", "o", "m">>
Reel == <<"r", "e", "e", "l">>

UrlReel == Https \o <<"w", "w", "w", ".">> \o Insta \o <<"/">> \o Reel \o <<"/", "A", "/", "?", "x">>
UrlPost == Https \o Insta \o <<"/", "p", "/", "B">>
UrlProfile == Https \o Insta \o <<"/", "u", "/">>
UrlEmptyId == Https \o Insta \o <<"/", "p", "/", "/">>

\* a URL of another host that carries the path of a post in its query
UrlOtherHost ==
    Https \o <<"e", ".", "c", "o", "/", "?", "u", "=">> \o Insta \o <<"/", "p", "/", "A">>

Urls == {UrlReel, UrlPost, UrlProfile, UrlEmptyId, UrlOtherHost}

StopChars == {"/", "?", "#", "&"}

\* the literal lit occurs in u at position i
LitAt(u, i, lit) ==
    /\ i + Len(lit) - 1 <= Len(u)
    /\ \A k \in 1..Len(lit) : u[i + k - 1] = lit[k]

RECURSIVE ClassEnd(_, _)
\* [^/?#&]+ is greedy: the last index of the run of non-stop characters from j on
ClassEnd(u, j) ==
    IF j + 1 <= Len(u) /\ u[j + 1] \notin StopChars THEN ClassEnd(u, j + 1) ELSE j

\* the pattern instagram\.com/(?:reel|p)/([^/?#&]+) anchored at position i
MatchAt(u, i) ==
    LET head == Insta \o <<"/">>
        k == i + Len(head)
        g == IF LitAt(u, k, Reel \o <<"/">>) THEN k + 5
             ELSE IF LitAt(u, k, <<"p", "/">>) THEN k + 2
             ELSE 0
    IN IF LitAt(u, i, head) /\ g > 0 /\ g <= Len(u) /\ u[g] \notin StopChars
       THEN [ok |-> TRUE, group |-> SubSeq(u, g, ClassEnd(u, g))]
       ELSE [ok |-> FALSE, group |-> <<>>]

\* re.search: the leftmost position at which the pattern matches
Search(u) ==
    LET hits == { i \in 1..Len(u) : MatchAt(u, i).ok }
    IN IF hits = {} THEN [ok |-> FALSE, group |-> <<>>]
       ELSE MatchAt(u, CHOOSE i \in hits : \A j \in hits : i <= j)

Shortcodes == { Search(u).group : u \in { v \in Urls : Search(v).ok } }

----------------------------------------------------------------------------
(* The downloads directory *)

\* the *.mp4 files of a directory, by the number of "processed_" prefixes of
\* their name: 0 is the file of the download, i + 1 the output of a
\* transcoding whose input is i.  A name of n prefixes is the output of the
\* n-th of n requests, each of which took the output of the one before as
\* its input, so MaxRequests requests write no name of more prefixes
Mp4Names == 0..MaxRequests

\* a directory: whether it exists, whether it holds expiry_timestamp.txt, the
\* text of that file, the threads that hold that file open for writing, the
\* other files of the download (metadata, picture, caption), whether it
\* holds _temp-audio.m4a, and the content of each *.mp4 file: "none" when the
\* file is not there, "raw" for the video of the download, "processed" for
\* what the encoder wrote
NoDir == [exists |-> FALSE, has_marker |-> FALSE, marker |-> <<>>, writers |-> {},
          other |-> FALSE, audio |-> FALSE, mp4 |-> [i \in Mp4Names |-> "none"]]

\* datetime.isoformat: the text of a timestamp; the empty text is <<>>
IsoFormat(t) == <<"T", t>>

\* datetime.fromisoformat(content): ValueError unless the text is a timestamp
FromIsoFormat(text) ==
    IF Len(text) = 2 /\ text[1] = "T"
    THEN [ok |-> TRUE, value |-> text[2]]
    ELSE [ok |-> FALSE, value |-> 0]

\* L.download_post(post, target=shortcode), a call into the instaloader
\* library: the directory is created when it is missing and the files of the
\* post are written, which the model takes as one step; files that exist
\* already are kept
Downloaded(d, has_video) ==
    [d EXCEPT !.exists = TRUE, !.other = TRUE,
              !.mp4[0] = IF @ = "none" /\ has_video THEN "raw" ELSE @]

\* open(target_path / "expiry_timestamp.txt", "w") by thread t: the file is
\* created or truncated
Truncated(d, t) == [d EXCEPT !.has_marker = TRUE, !.marker = <<>>, !.writers = @ \cup {t}]

\* f.write(expiry_time.isoformat()) and the close of the file by thread t; a
\* file that was unlinked since t opened it is not the directory's any more
Written(d, t, time) ==
    IF t \in d.writers
    THEN [d EXCEPT !.marker = IsoFormat(time), !.writers = @ \ {t}]
    ELSE d

\* write_videofile (lines 174-196) begins: the audio track is written to
\* temp_audiofile (line 193) and the encoder opens its output file, the input
\* with one more prefix; the model takes the two as one step
OutputOpened(d, i) == [d EXCEPT !.audio = TRUE, !.mp4[i + 1] = "processed"]

\* write_videofile ends: remove_temp (line 194) removes the audio file when
\* it is there
TempRemoved(d) == [d EXCEPT !.audio = FALSE]

\* input_path.unlink()
InputUnlinked(d, i) == [d EXCEPT !.mp4[i] = "none"]

\* temp_output_path.rename(input_path)
OutputRenamed(d, i) == [d EXCEPT !.mp4[i] = d.mp4[i + 1], !.mp4[i + 1] = "none"]

\* os.scandir: the names of the files of a directory
Entries(d) ==
    (IF d.has_marker THEN {<<"marker">>} ELSE {})
    \cup (IF d.other THEN {<<"other">>} ELSE {})
    \cup (IF d.audio THEN {<<"audio">>} ELSE {})
    \cup { <<"mp4", i>> : i \in { j \in Mp4Names : d.mp4[j] /= "none" } }

\* os.unlink(entry.name): the directory without the file f
Unlinked(d, f) ==
    IF f = <<"marker">> THEN [d EXCEPT !.has_marker = FALSE, !.marker = <<>>, !.writers = {}]
    ELSE IF f = <<"other">> THEN [d EXCEPT !.other = FALSE]
    ELSE IF f = <<"audio">> THEN [d EXCEPT !.audio = FALSE]
    ELSE [d EXCEPT !.mp4[f[2]] = "none"]

----------------------------------------------------------------------------
(* The state after construction *)

Threads == 1..NumThreads

\* the threads of the pool that run download_insta; the model has two of
\* them, so up to two requests are in progress at one time
Handlers == 1..2

\* a thread that is not inside random.shuffle
NoSwap == [i |-> 0, j |-> 0, a |-> None, b |-> None]

Init ==
    /\ clock = ClockStart
    /\ proxies_url \in {"", "http://proxy.source/list"}
    /\ proxies = <<>>
    /\ proxy_stats = <<>>
    /\ ret = [proxy |-> None, branch |-> "none", stale |-> 0]
    /\ last_fetch = Logged("none", <<>>)
    /\ fit_times = <<>>
    /\ started = FALSE
    /\ tpc = [t \in Threads |-> "idle"]
    /\ tnow = [t \in Threads |-> 0]
    /\ tidx = [t \in Threads |-> 0]
    /\ tcur = [t \in Threads |-> None]
    /\ ttmp = [t \in Threads |-> 0]
    /\ tswap = [t \in Threads |-> NoSwap]
    /\ fits = <<>>
    /\ calls = 0
    /\ pc = [t \in Handlers |-> "idle"]
    /\ shortcode = [t \in Handlers |-> <<>>]
    /\ attempt = [t \in Handlers |-> 0]
    /\ last_exception = [t \in Handlers |-> "None"]
    /\ expiry_time = [t \in Handlers |-> 0]
    /\ input_path = [t \in Handlers |-> 0]
    /\ sleep_end = [t \in Handlers |-> 0]
    /\ response = [t \in Handlers |-> [status |-> 0, stage |-> "none"]]
    /\ served = 0
    /\ elapsed = 0
    /\ dirs = [c \in Shortcodes |-> NoDir]
    /\ cpc = "off"
    /\ cnow = 0
    /\ citems = <<>>
    /\ centries = {}
    /\ wake = 0

----------------------------------------------------------------------------
(* The startup of the service *)

\* startup_event (lines 68-71): fetch_proxies, where the proxy source answers
\* with one of texts or fails, then the cleanup task is created; its first
\* sweep is due at once
startup_event(texts) ==
    /\ ~started
    /\ started' = TRUE
    /\ fetch_proxies(texts)
    /\ cpc' = "sleep"
    /\ wake' = clock
    /\ UNCHANGED <<clock, reqVars, dirs, cnow, citems, centries>>

----------------------------------------------------------------------------
(* The pool used by one caller at a time; in these specifications and in    *)
(* the one of the concurrent callers the downloads directory stays empty    *)
(* and the cleanup task, which has nothing to delete, is left out           *)

PoolTickSteps == {30, 31}

FetchProxies == fetch_proxies(SourceTexts) /\ UNCHANGED <<clock, started, fit_times, raceVars, svcVars>>

GetProxy == get_proxy /\ UNCHANGED <<clock, started, fit_times, raceVars, svcVars>>

PoolTick ==
    /\ \E dt \in PoolTickSteps :
         /\ clock + dt <= ClockStart + MaxPoolTicks * 31
         /\ clock' = clock + dt
    /\ UNCHANGED <<poolVars, started, fit_times, raceVars, svcVars>>

NextPool == FetchProxies \/ GetProxy \/ PoolTick

SpecPool == Init /\ [][NextPool]_vars

\* the pool with the history of its first-fit returns: loaded once at
\* startup with one or two proxies, then used by one caller at a time
WindowTexts == { <<LineA>>, <<LineA, LineB>> }

\* the times of a history that lie in the 60 seconds up to now
Recent(times, now) == SelectSeq(times, LAMBDA t : now - t <= RateWindow)

WindowStartup ==
    /\ startup_event(WindowTexts)
    /\ fit_times' = [p \in DOMAIN proxy_stats' |-> <<>>]
    /\ UNCHANGED raceVars

\* a get_proxy call; a return of the first-fit branch enters the history
WindowGetProxy ==
    /\ started
    /\ get_proxy
    /\ fit_times' = [p \in DOMAIN fit_times |->
                      IF ret'.branch = "first_fit" /\ ret'.proxy = p
                      THEN Append(Recent(fit_times[p], clock), clock)
                      ELSE Recent(fit_times[p], clock)]
    /\ UNCHANGED <<clock, started, raceVars, svcVars>>

\* the clock advances to the last second of a window, or just past it
WindowTickSteps == {RateWindow, RateWindow + 1}

WindowTick ==
    /\ \E dt \in WindowTickSteps :
         /\ clock + dt <= ClockStart + MaxWindowTicks * (RateWindow + 1)
         /\ clock' = clock + dt
    /\ UNCHANGED <<poolVars, started, fit_times, raceVars, svcVars>>

NextWindow == WindowStartup \/ WindowGetProxy \/ WindowTick

SpecWindow == Init /\ [][NextWindow]_vars

----------------------------------------------------------------------------
(* get_proxy called by concurrent request threads: no lock guards the pool, *)
(* so the statements of two calls interleave.                               *)

\* lines 48-52 and the entry of random.shuffle (line 55): empty check,
\* now = time.time(), the loop index of the shuffle starts at the last element
GetProxyEnter(t) ==
    /\ tpc[t] = "idle"
    /\ IF proxies = <<>>
       THEN /\ ret' = [proxy |-> None, branch |-> "empty", stale |-> 0]
            /\ UNCHANGED <<tpc, tnow, tswap>>
       ELSE /\ tnow' = [tnow EXCEPT ![t] = clock]
            /\ tswap' = [tswap EXCEPT ![t] = [NoSwap EXCEPT !.i = Len(proxies)]]
            /\ tpc' = [tpc EXCEPT ![t] = "shuffle"]
            /\ UNCHANGED ret
    /\ UNCHANGED <<proxies_url, last_fetch, proxies, proxy_stats, tidx, tcur, ttmp>>

\* random.shuffle, one round of its loop: j = randbelow(i + 1) and the right
\* side of x[i], x[j] = x[j], x[i]; after the last round the for loop of
\* line 57 begins
ShuffleRound(t) ==
    /\ tpc[t] = "shuffle"
    /\ IF tswap[t].i >= 2
       THEN /\ \E j \in 1..tswap[t].i :
                 tswap' = [tswap EXCEPT ![t] =
                             [i |-> tswap[t].i, j |-> j, a |-> proxies[j], b |-> proxies[tswap[t].i]]]
            /\ tpc' = [tpc EXCEPT ![t] = "swap_i"]
            /\ UNCHANGED tidx
       ELSE /\ tswap' = [tswap EXCEPT ![t] = NoSwap]
            /\ tidx' = [tidx EXCEPT ![t] = 0]
            /\ tpc' = [tpc EXCEPT ![t] = "iter"]
    /\ UNCHANGED <<poolVars, tnow, tcur, ttmp>>

\* random.shuffle, first store of the swap: x[i] = the element loaded from x[j]
SwapStoreI(t) ==
    /\ tpc[t] = "swap_i"
    /\ proxies' = [proxies EXCEPT ![tswap[t].i] = tswap[t].a]
    /\ tpc' = [tpc EXCEPT ![t] = "swap_j"]
    /\ UNCHANGED <<proxies_url, last_fetch, proxy_stats, ret, tnow, tidx, tcur, ttmp, tswap>>

\* random.shuffle, second store of the swap: x[j] = the element loaded from x[i]
SwapStoreJ(t) ==
    /\ tpc[t] = "swap_j"
    /\ proxies' = [proxies EXCEPT ![tswap[t].j] = tswap[t].b]
    /\ tswap' = [tswap EXCEPT ![t] = [NoSwap EXCEPT !.i = tswap[t].i - 1]]
    /\ tpc' = [tpc EXCEPT ![t] = "shuffle"]
    /\ UNCHANGED <<proxies_url, last_fetch, proxy_stats, ret, tnow, tidx, tcur, ttmp>>

\* line 57: the next element of the live list, or lines 73-74 when it is
\* exhausted: the call returns and its locals are gone
LoopNext(t) ==
    /\ tpc[t] = "iter"
    /\ IF tidx[t] < Len(proxies)
       THEN /\ tcur' = [tcur EXCEPT ![t] = proxies[tidx[t] + 1]]
            /\ tidx' = [tidx EXCEPT ![t] = tidx[t] + 1]
            /\ tpc' = [tpc EXCEPT ![t] = "window"]
            /\ UNCHANGED <<ret, tnow, ttmp>>
       ELSE /\ \E i \in 1..Len(proxies) :
                 ret' = [proxy |-> proxies[i], branch |-> "degrade",
                         stale |-> Counter(proxy_stats, proxies[i])]
            /\ tpc' = [tpc EXCEPT ![t] = "idle"]
            /\ tnow' = [tnow EXCEPT ![t] = 0]
            /\ tidx' = [tidx EXCEPT ![t] = 0]
            /\ tcur' = [tcur EXCEPT ![t] = None]
            /\ ttmp' = [ttmp EXCEPT ![t] = 0]
    /\ UNCHANGED <<proxies_url, last_fetch, proxies, proxy_stats, tswap>>

\* line 64: the test now - stats['last_used'] > 60
WindowTest(t) ==
    /\ tpc[t] = "window"
    /\ tpc' = [tpc EXCEPT ![t] =
                 IF WindowExpired(tnow[t], proxy_stats[tcur[t]]) THEN "reset" ELSE "ceiling"]
    /\ UNCHANGED <<poolVars, tnow, tidx, tcur, ttmp, tswap>>

\* line 65: stats['requests_this_min'] = 0
CounterReset(t) ==
    /\ tpc[t] = "reset"
    /\ proxy_stats' = [proxy_stats EXCEPT ![tcur[t]].requests_this_min = 0]
    /\ tpc' = [tpc EXCEPT ![t] = "ceiling"]
    /\ UNCHANGED <<proxies_url, last_fetch, proxies, ret, tnow, tidx, tcur, ttmp, tswap>>

\* line 67: the test stats['requests_this_min'] < 10
CeilingTest(t) ==
    /\ tpc[t] = "ceiling"
    /\ tpc' = [tpc EXCEPT ![t] = IF BelowCeiling(proxy_stats[tcur[t]]) THEN "load" ELSE "iter"]
    /\ UNCHANGED <<poolVars, tnow, tidx, tcur, ttmp, tswap>>

\* line 68, first half of +=: load stats['requests_this_min']
CounterLoad(t) ==
    /\ tpc[t] = "load"
    /\ ttmp' = [ttmp EXCEPT ![t] = proxy_stats[tcur[t]].requests_this_min]
    /\ tpc' = [tpc EXCEPT ![t] = "store"]
    /\ UNCHANGED <<poolVars, tnow, tidx, tcur, tswap>>

\* line 68, second half of +=: store the loaded value plus one
CounterStore(t) ==
    /\ tpc[t] = "store"
    /\ proxy_stats' = [proxy_stats EXCEPT ![tcur[t]].requests_this_min = ttmp[t] + 1]
    /\ tpc' = [tpc EXCEPT ![t] = "stamp"]
    /\ UNCHANGED <<proxies_url, last_fetch, proxies, ret, tnow, tidx, tcur, ttmp, tswap>>

\* lines 69-70: stats['last_used'] = now; return proxy: the locals of the
\* call are gone
StampReturn(t) ==
    /\ tpc[t] = "stamp"
    /\ proxy_stats' = [proxy_stats EXCEPT ![tcur[t]].last_used = tnow[t]]
    /\ ret' = [proxy |-> tcur[t], branch |-> "first_fit", stale |-> ttmp[t]]
    /\ tpc' = [tpc EXCEPT ![t] = "idle"]
    /\ tnow' = [tnow EXCEPT ![t] = 0]
    /\ tidx' = [tidx EXCEPT ![t] = 0]
    /\ tcur' = [tcur EXCEPT ![t] = None]
    /\ ttmp' = [ttmp EXCEPT ![t] = 0]
    /\ UNCHANGED <<proxies_url, last_fetch, proxies, tswap>>

\* lines 55-74: the next statement of the get_proxy call of thread t
GetProxyStep(t) ==
    \/ ShuffleRound(t) \/ SwapStoreI(t) \/ SwapStoreJ(t)
    \/ LoopNext(t) \/ WindowTest(t) \/ CounterReset(t) \/ CeilingTest(t)
    \/ CounterLoad(t) \/ CounterStore(t) \/ StampReturn(t)

\* The callers of this specification are threads that call get_proxy and do
\* nothing else.

\* startup_event, with the count of the first-fit returns of each proxy
RaceStartup ==
    /\ startup_event(SourceTexts)
    /\ fits' = [p \in DOMAIN proxy_stats' |-> 0]
    /\ UNCHANGED <<fit_times, callVars, calls>>

\* what the steps of a caller leave alone
RaceFrame == UNCHANGED <<clock, started, fit_times, svcVars>>

RBegin(t) ==
    /\ started /\ calls < MaxRaceCalls
    /\ calls' = calls + 1
    /\ GetProxyEnter(t)
    /\ RaceFrame /\ UNCHANGED fits

RShuffle(t) == ShuffleRound(t) /\ RaceFrame /\ UNCHANGED <<fits, calls>>

RSwapI(t) == SwapStoreI(t) /\ RaceFrame /\ UNCHANGED <<fits, calls>>

RSwapJ(t) == SwapStoreJ(t) /\ RaceFrame /\ UNCHANGED <<fits, calls>>

\* a call made before any two requests overlap: it runs from its first to
\* its last statement with no other thread inside get_proxy
RSolo ==
    /\ started /\ calls = 0
    /\ get_proxy
    /\ fits' = [p \in DOMAIN fits |->
                 IF ret'.branch = "first_fit" /\ ret'.proxy = p THEN fits[p] + 1 ELSE fits[p]]
    /\ RaceFrame /\ UNCHANGED <<callVars, calls>>

RIter(t) == LoopNext(t) /\ RaceFrame /\ UNCHANGED <<fits, calls>>

RWindow(t) == WindowTest(t) /\ RaceFrame /\ UNCHANGED <<fits, calls>>

RReset(t) == CounterReset(t) /\ RaceFrame /\ UNCHANGED <<fits, calls>>

RCeiling(t) == CeilingTest(t) /\ RaceFrame /\ UNCHANGED <<fits, calls>>

RLoad(t) == CounterLoad(t) /\ RaceFrame /\ UNCHANGED <<fits, calls>>

RStore(t) == CounterStore(t) /\ RaceFrame /\ UNCHANGED <<fits, calls>>

\* a first-fit return is counted
RStamp(t) ==
    /\ StampReturn(t)
    /\ fits' = [fits EXCEPT ![tcur[t]] = fits[tcur[t]] + 1]
    /\ RaceFrame /\ UNCHANGED calls

NextRace ==
    \/ RaceStartup
    \/ RSolo
    \/ \E t \in Threads :
         RBegin(t) \/ RShuffle(t) \/ RSwapI(t) \/ RSwapJ(t) \/ RIter(t) \/ RWindow(t) \/ RReset(t) \/ RCeiling(t)
           \/ RLoad(t) \/ RStore(t) \/ RStamp(t)

SpecRace == Init /\ [][NextRace]_vars

----------------------------------------------------------------------------
(* The service: startup, the request handler download_insta, cleanup_loop *)

\* startup_event of the service
Startup(texts) == startup_event(texts) /\ UNCHANGED <<fit_times, raceVars>>

\* the outcomes of the network calls of one attempt (lines 115-121): success
\* for a post with or without a video, a ConnectionException whose message
\* carries 401, 403, 429 or none of them, another InstaloaderException, any
\* other exception
ConnSignals == {"401", "403", "429", "conn"}
FetchOutcomes == {"ok_video", "ok_image", "insta", "other"} \cup ConnSignals

\* thread t goes on to position p of the handler
Goto(t, p) == pc' = [pc EXCEPT ![t] = p]

\* the handler of thread t returns, or raises an HTTPException, with the
\* given status: its locals are gone
Return(t, status, stage) ==
    /\ response' = [response EXCEPT ![t] = [status |-> status, stage |-> stage]]
    /\ pc' = [pc EXCEPT ![t] = "done"]
    /\ shortcode' = [shortcode EXCEPT ![t] = <<>>]
    /\ attempt' = [attempt EXCEPT ![t] = 0]
    /\ last_exception' = [last_exception EXCEPT ![t] = "None"]
    /\ expiry_time' = [expiry_time EXCEPT ![t] = 0]
    /\ input_path' = [input_path EXCEPT ![t] = 0]
    /\ sleep_end' = [sleep_end EXCEPT ![t] = 0]

\* lines 75-89: the shortcode is parsed from the URL
Parse(t, u) ==
    LET m == Search(u) IN
    IF m.ok
    THEN /\ shortcode' = [shortcode EXCEPT ![t] = m.group]
         /\ attempt' = [attempt EXCEPT ![t] = 0]
         /\ last_exception' = [last_exception EXCEPT ![t] = "None"]
         /\ expiry_time' = [expiry_time EXCEPT ![t] = 0]
         /\ input_path' = [input_path EXCEPT ![t] = 0]
         /\ sleep_end' = [sleep_end EXCEPT ![t] = 0]
         /\ pc' = [pc EXCEPT ![t] = "attempt"]
         /\ response' = [response EXCEPT ![t] = [status |-> 0, stage |-> "running"]]
    ELSE Return(t, 400, "url")

\* the thread of the pool that takes the next call: the first one that runs
\* no request
FreeThread(t) ==
    /\ pc[t] \in {"idle", "done"}
    /\ \A s \in Handlers : s < t => pc[s] \notin {"idle", "done"}

\* a request arrives and a thread of the pool runs the handler, whatever the
\* other threads are doing
Receive(t, u) ==
    /\ started /\ FreeThread(t) /\ served < MaxRequests
    /\ served' = served + 1
    /\ Parse(t, u)
    /\ UNCHANGED <<clock, started, elapsed, fit_times, poolVars, raceVars, dirs, sweepVars>>

\* line 94: the thread enters get_proxy; with an empty pool the call
\* returns None at once (lines 48-49) and, after get_user_agent (line 95),
\* the thread waits for the network
Select(t) ==
    /\ pc[t] = "attempt"
    /\ GetProxyEnter(t)
    /\ Goto(t, IF proxies = <<>> THEN "fetch" ELSE "select")
    /\ UNCHANGED <<clock, started, fit_times, fits, calls, shortcode, attempt, last_exception,
                   expiry_time, input_path, sleep_end, response, served, elapsed, dirs, sweepVars>>

\* lines 55-74 as run by the thread of a request: the next statement of its
\* get_proxy call; after the return and get_user_agent (line 95) the thread
\* waits for the network
Selecting(t) ==
    /\ pc[t] = "select"
    /\ GetProxyStep(t)
    /\ Goto(t, IF tpc'[t] = "idle" THEN "fetch" ELSE "select")
    /\ UNCHANGED <<clock, started, fit_times, fits, calls, shortcode, attempt, last_exception,
                   expiry_time, input_path, sleep_end, response, served, elapsed, dirs, sweepVars>>

\* line 131: another attempt follows the failed one
\* variant: the last attempt is followed by one more
MoreAttemptsThanRange(a) == a < max_retries

MoreAttempts(a) == a < max_retries - 1

\* line 126: the outcome is a ConnectionException
Retryable(o) == o \in ConnSignals

\* lines 115-141: Post.from_shortcode and L.download_post return or raise,
\* with outcome o
Fetch(t, o) ==
    /\ pc[t] = "fetch"
    /\ IF o \in {"ok_video", "ok_image"}
       THEN /\ dirs' = [dirs EXCEPT ![shortcode[t]] = Downloaded(dirs[shortcode[t]], o = "ok_video")]
            /\ Goto(t, "broke")                           \* line 124: break
            /\ UNCHANGED <<shortcode, attempt, last_exception, expiry_time, input_path, sleep_end, response>>
       ELSE IF Retryable(o)
       THEN /\ last_exception' = [last_exception EXCEPT ![t] = o]
            /\ IF MoreAttempts(attempt[t])
               THEN Goto(t, "backoff")                    \* line 133: time.sleep
               ELSE Goto(t, "exhausted")                  \* the range is used up
            /\ UNCHANGED <<shortcode, attempt, expiry_time, input_path, sleep_end, dirs, response>>
       ELSE /\ Return(t, 500, o)
            /\ UNCHANGED dirs
    /\ UNCHANGED <<clock, started, fit_times, poolVars, raceVars, served, elapsed, sweepVars>>

\* random.uniform(1, 3), in whole seconds
SleepSeconds == 1..MaxSleep

\* line 133: time.sleep(random.uniform(1, 3)) begins, a sleep of d seconds
SleepBegin(t, d) ==
    /\ pc[t] = "backoff"
    /\ d \in SleepSeconds
    /\ sleep_end' = [sleep_end EXCEPT ![t] = clock + d]
    /\ Goto(t, "sleep")
    /\ UNCHANGED <<clock, started, fit_times, poolVars, raceVars, shortcode, attempt, last_exception,
                   expiry_time, input_path, response, served, elapsed, dirs, sweepVars>>

\* lines 133-134 and 91: the seconds of the sleep have passed, time.sleep
\* returns and the loop goes on with its next index
SleepEnd(t) ==
    /\ pc[t] = "sleep"
    /\ clock >= sleep_end[t]
    /\ sleep_end' = [sleep_end EXCEPT ![t] = 0]
    /\ attempt' = [attempt EXCEPT ![t] = @ + 1]
    /\ Goto(t, "attempt")
    /\ UNCHANGED <<clock, started, fit_times, poolVars, raceVars, shortcode, last_exception,
                   expiry_time, input_path, response, served, elapsed, dirs, sweepVars>>

\* some thread is inside time.sleep and its seconds have not passed yet
Sleeping == \E t \in Handlers : pc[t] = "sleep" /\ clock < sleep_end[t]

\* a second of the wall clock passes, for every thread at once and wherever
\* the threads are: in a sleep, in a network call, between two statements,
\* between two requests.  The seconds of a sleep always pass; at most
\* MaxElapsed seconds pass otherwise.
Second ==
    /\ IF Sleeping
       THEN UNCHANGED elapsed
       ELSE elapsed < MaxElapsed /\ elapsed' = elapsed + 1
    /\ clock' = clock + 1
    /\ UNCHANGED <<started, fit_times, poolVars, raceVars, pc, shortcode, attempt, last_exception,
                   expiry_time, input_path, sleep_end, response, served, dirs, sweepVars>>

\* lines 144-148: the status raised after the loop, 0 when nothing is raised
LoopVerdict(exc) ==
    IF exc /= "None"
    THEN (IF exc \in {"401", "429", "403"} THEN 429 ELSE 500)
    ELSE 0

\* lines 143-148, reached by the break and by the end of the loop alike
AfterLoop(t) ==
    /\ pc[t] \in {"broke", "exhausted"}
    /\ IF LoopVerdict(last_exception[t]) /= 0
       THEN Return(t, LoopVerdict(last_exception[t]), "retries")
       ELSE /\ Goto(t, "open_marker")
            /\ UNCHANGED <<shortcode, attempt, last_exception, expiry_time, input_path, sleep_end, response>>
    /\ UNCHANGED <<clock, started, fit_times, poolVars, raceVars, served, elapsed, dirs, sweepVars>>

\* line 154: expiry_time = datetime.now() + timedelta(hours=1)
ExpiryAt(now) == now + ExpiryDelay

\* lines 154-155: expiry_time is computed and the marker file is opened for writing
OpenMarker(t) ==
    /\ pc[t] = "open_marker"
    /\ IF dirs[shortcode[t]].exists
       THEN /\ expiry_time' = [expiry_time EXCEPT ![t] = ExpiryAt(clock)]
            /\ dirs' = [dirs EXCEPT ![shortcode[t]] = Truncated(dirs[shortcode[t]], t)]
            /\ Goto(t, "write_marker")
            /\ UNCHANGED <<shortcode, attempt, last_exception, input_path, sleep_end, response>>
       ELSE /\ Return(t, 500, "unexpected")              \* FileNotFoundError
            /\ UNCHANGED dirs
    /\ UNCHANGED <<clock, started, fit_times, poolVars, raceVars, served, elapsed, sweepVars>>

\* line 156 and the end of the with block
WriteMarker(t) ==
    /\ pc[t] = "write_marker"
    /\ dirs' = [dirs EXCEPT ![shortcode[t]] = Written(dirs[shortcode[t]], t, expiry_time[t])]
    /\ Goto(t, "find_video")
    /\ UNCHANGED <<clock, started, fit_times, poolVars, raceVars, shortcode, attempt, last_exception,
                   expiry_time, input_path, sleep_end, response, served, elapsed, sweepVars>>

\* the files glob("*.mp4") lists, any of which can be the first
Inputs(d) == { i \in Mp4Names : d.exists /\ d.mp4[i] /= "none" }

\* lines 159-166: glob("*.mp4"); the first file listed is the input
FindVideo(t) ==
    /\ pc[t] = "find_video"
    /\ IF Inputs(dirs[shortcode[t]]) /= {}
       THEN /\ \E i \in Inputs(dirs[shortcode[t]]) : input_path' = [input_path EXCEPT ![t] = i]
            /\ Goto(t, "transcode")
            /\ UNCHANGED <<shortcode, attempt, last_exception, expiry_time, sleep_end, response>>
       ELSE Return(t, 500, "novideo")
    /\ UNCHANGED <<clock, started, fit_times, poolVars, raceVars, served, elapsed, dirs, sweepVars>>

\* lines 171-174: VideoFileClip opens the input (ok: it can be read) and
\* write_videofile starts the encoder, which opens its output
OpenInput(t, ok) ==
    /\ pc[t] = "transcode"
    /\ LET d == dirs[shortcode[t]] IN
       IF ok /\ d.exists /\ d.mp4[input_path[t]] /= "none"
       THEN /\ dirs' = [dirs EXCEPT ![shortcode[t]] = OutputOpened(d, input_path[t])]
            /\ Goto(t, "encoding")
            /\ UNCHANGED <<shortcode, attempt, last_exception, expiry_time, input_path, sleep_end, response>>
       ELSE /\ Return(t, 500, "transcode")
            /\ UNCHANGED dirs
    /\ UNCHANGED <<clock, started, fit_times, poolVars, raceVars, served, elapsed, sweepVars>>

\* lines 174-197: the encoder ends; it has written its output and the audio
\* file is removed (ok), or it raises and leaves what it wrote
Encode(t, ok) ==
    /\ pc[t] = "encoding"
    /\ IF ok
       THEN /\ dirs' = [dirs EXCEPT ![shortcode[t]] = TempRemoved(@)]
            /\ Goto(t, "unlink")
            /\ UNCHANGED <<shortcode, attempt, last_exception, expiry_time, input_path, sleep_end, response>>
       ELSE /\ Return(t, 500, "transcode")
            /\ UNCHANGED dirs
    /\ UNCHANGED <<clock, started, fit_times, poolVars, raceVars, served, elapsed, sweepVars>>

\* line 200: input_path.unlink()
Unlink(t) ==
    /\ pc[t] = "unlink"
    /\ LET d == dirs[shortcode[t]] IN
       IF d.exists /\ d.mp4[input_path[t]] /= "none"
       THEN /\ dirs' = [dirs EXCEPT ![shortcode[t]] = InputUnlinked(d, input_path[t])]
            /\ Goto(t, "rename")
            /\ UNCHANGED <<shortcode, attempt, last_exception, expiry_time, input_path, sleep_end, response>>
       ELSE /\ Return(t, 500, "transcode")           \* FileNotFoundError
            /\ UNCHANGED dirs
    /\ UNCHANGED <<clock, started, fit_times, poolVars, raceVars, served, elapsed, sweepVars>>

\* line 201: temp_output_path.rename(input_path)
Rename(t) ==
    /\ pc[t] = "rename"
    /\ LET d == dirs[shortcode[t]] IN
       IF d.exists /\ d.mp4[input_path[t] + 1] /= "none"
       THEN /\ dirs' = [dirs EXCEPT ![shortcode[t]] = OutputRenamed(d, input_path[t])]
            /\ Goto(t, "caption")
            /\ UNCHANGED <<shortcode, attempt, last_exception, expiry_time, input_path, sleep_end, response>>
       ELSE /\ Return(t, 500, "transcode")           \* FileNotFoundError
            /\ UNCHANGED dirs
    /\ UNCHANGED <<clock, started, fit_times, poolVars, raceVars, served, elapsed, sweepVars>>

\* lines 208-231: the caption is looked up and read, the response is returned
Respond(t) ==
    /\ pc[t] = "caption"
    /\ Return(t, 200, "ok")
    /\ UNCHANGED <<clock, started, fit_times, poolVars, raceVars, served, elapsed, dirs, sweepVars>>

\* the orders in which iterdir can list the directories that exist
Listings ==
    LET present == { c \in Shortcodes : dirs[c].exists }
    IN { l \in UNION { [1..n -> present] : n \in 0..Cardinality(present) } :
           /\ Len(l) = Cardinality(present)
           /\ \A i, j \in 1..Len(l) : l[i] = l[j] => i = j }

\* lines 44-48: a sweep begins when the sleep has ended
SweepBegin ==
    /\ cpc = "sleep" /\ clock >= wake
    /\ cnow' = clock
    /\ \E l \in Listings : citems' = l
    /\ cpc' = "scan"
    /\ UNCHANGED <<clock, started, fit_times, poolVars, raceVars, reqVars, dirs, centries, wake>>

\* line 57: the directory has expired
Expired(now, expiry) == now > expiry

\* lines 49-57: is the directory item to be deleted
Condemned(d, now) ==
    /\ d.exists
    /\ d.has_marker
    /\ FromIsoFormat(d.marker).ok
    /\ Expired(now, FromIsoFormat(d.marker).value)

\* what the file system answers while an item is examined: every call
\* returns; is_dir() or exists() raises an OSError (lines 49 and 51, a
\* directory that cannot be searched); open or read raises (lines 53-54, a
\* marker that cannot be read)
ExamineOutcomes == {"ok", "stat_error", "read_error"}

\* lines 49-62: the next item is examined.  An error of open, read or
\* fromisoformat is raised inside the inner try: it is logged (line 61) and
\* the loop goes on with the next item.  is_dir() and exists() are called
\* outside the inner try: their error is caught at line 62, which is outside
\* the for loop, so the sweep is over and the task sleeps (line 66).
SweepExamine(e) ==
    /\ cpc = "scan" /\ citems /= <<>>
    /\ LET d == dirs[Head(citems)] IN
       IF e = "stat_error"
       THEN /\ d.exists
            /\ citems' = <<>>
            /\ cpc' = "sleep"
            /\ wake' = clock + SleepTime
            /\ cnow' = 0
       ELSE IF e = "read_error"
       THEN /\ d.exists /\ d.has_marker
            /\ citems' = Tail(citems)
            /\ UNCHANGED <<cpc, cnow, wake>>
       ELSE /\ e = "ok"
            /\ IF Condemned(d, cnow)
               THEN cpc' = "rmtree" /\ UNCHANGED citems
               ELSE citems' = Tail(citems) /\ UNCHANGED cpc
            /\ UNCHANGED <<cnow, wake>>
    /\ UNCHANGED <<clock, started, fit_times, poolVars, raceVars, reqVars, dirs, centries>>

\* line 59, shutil.rmtree(item), first part: the directory is opened and its
\* entries are listed
SweepList ==
    /\ cpc = "rmtree"
    /\ IF dirs[Head(citems)].exists
       THEN /\ centries' = Entries(dirs[Head(citems)])
            /\ cpc' = "unlink"
            /\ UNCHANGED citems
       ELSE /\ citems' = Tail(citems)                \* the error is logged, line 61
            /\ cpc' = "scan"
            /\ UNCHANGED centries
    /\ UNCHANGED <<clock, started, fit_times, poolVars, raceVars, reqVars, dirs, cnow, wake>>

\* shutil.rmtree, second part: one of the listed entries is unlinked; when
\* it is not there any more rmtree raises, the error is logged (line 61) and
\* the loop goes on with the next item
SweepUnlink ==
    /\ cpc = "unlink" /\ centries /= {}
    /\ \E f \in centries :
         IF f \in Entries(dirs[Head(citems)])
         THEN /\ dirs' = [dirs EXCEPT ![Head(citems)] = Unlinked(dirs[Head(citems)], f)]
              /\ centries' = centries \ {f}
              /\ UNCHANGED <<cpc, citems>>
         ELSE /\ centries' = {}
              /\ citems' = Tail(citems)
              /\ cpc' = "scan"
              /\ UNCHANGED dirs
    /\ UNCHANGED <<clock, started, fit_times, poolVars, raceVars, reqVars, cnow, wake>>

\* shutil.rmtree, last part: os.rmdir removes the directory when it is
\* empty; when a file has appeared in it rmdir raises, the error is logged
\* (line 61) and the directory stays
SweepRmdir ==
    /\ cpc = "unlink" /\ centries = {}
    /\ dirs' = [dirs EXCEPT ![Head(citems)] = IF Entries(@) = {} THEN NoDir ELSE @]
    /\ citems' = Tail(citems)
    /\ cpc' = "scan"
    /\ UNCHANGED <<clock, started, fit_times, poolVars, raceVars, reqVars, cnow, centries, wake>>

\* line 66: the sweep is over, asyncio.sleep(3600)
SweepEnd ==
    /\ cpc = "scan" /\ citems = <<>>
    /\ wake' = clock + SleepTime
    /\ cpc' = "sleep"
    /\ cnow' = 0
    /\ UNCHANGED <<clock, started, fit_times, poolVars, raceVars, reqVars, dirs, citems, centries>>

\* what the handler does after the download, lines 143-231
AfterDownload(t) ==
    \/ AfterLoop(t)
    \/ OpenMarker(t) \/ WriteMarker(t) \/ FindVideo(t)
    \/ \E ok \in BOOLEAN : OpenInput(t, ok)
    \/ \E ok \in BOOLEAN : Encode(t, ok)
    \/ Unlink(t) \/ Rename(t) \/ Respond(t)

\* a request whose download and transcoding meet no failure
PlainRequest(t) ==
    \/ Select(t) \/ Fetch(t, "ok_video")
    \/ AfterLoop(t)
    \/ OpenMarker(t) \/ WriteMarker(t) \/ FindVideo(t)
    \/ OpenInput(t, TRUE) \/ Encode(t, TRUE)
    \/ Unlink(t) \/ Rename(t) \/ Respond(t)

\* the cleanup task while every call of its examinations returns
Cleanup == SweepBegin \/ SweepExamine("ok") \/ SweepList \/ SweepUnlink \/ SweepRmdir \/ SweepEnd

\* an examination meets an error of the file system
ExamineError == \E e \in ExamineOutcomes \ {"ok"} : SweepExamine(e)

InitDirect == Init /\ proxies_url = ""

\* The retry loop.  PROXIES_URL is set or not, the pool holds one proxy or
\* is empty.  Every attempt can end with each of the outcomes of the network
\* calls, the first one included, and a request that has downloaded its post
\* goes on through the materialization of the artifact.  Time passes wherever
\* the request is.  The service receives MaxRetryRequests requests, for one
\* post.  The seconds of the retries use up no expiry delay and the cleanup
\* task, which deletes nothing, is left out.

\* a request arrives, one of the MaxRetryRequests of these specifications
Arrive(t, u) ==
    /\ served < MaxRetryRequests
    /\ Receive(t, u)

\* a step of the request that thread t runs, but for the end of its network
\* calls: lines 94-95, the sleep of line 133 and lines 143-231
RequestStep(t) ==
    \/ Select(t) \/ Selecting(t)
    \/ \E d \in SleepSeconds : SleepBegin(t, d)
    \/ SleepEnd(t)
    \/ AfterDownload(t)

\* lines 115-141: the network calls of thread t return or raise
FetchStep(t) == \E o \in FetchOutcomes : Fetch(t, o)

NextRetry ==
    \/ Startup(StartupTexts)
    \/ \E t \in Handlers : Arrive(t, UrlPost) \/ RequestStep(t) \/ FetchStep(t)
    \/ Second

SpecRetry == Init /\ [][NextRetry]_vars

\* the thread of a request is scheduled until the handler returns, every
\* network call returns or raises (max_connection_attempts=1, line 107) and
\* time passes
SpecRetryLive ==
    /\ Init /\ [][NextRetry]_vars
    /\ \A t \in Handlers : WF_vars(RequestStep(t)) /\ WF_vars(FetchStep(t))
    /\ WF_vars(Second)

\* Requests for every URL of the model, each of them served without a failure
NextUrls ==
    \/ Startup(StartupTexts)
    \/ \E t \in Handlers :
         \/ \E u \in Urls : Receive(t, u)
         \/ PlainRequest(t)

SpecUrls == InitDirect /\ [][NextUrls]_vars

\* The store and the cleanup loop while time passes.  Only differences of
\* times matter to the program, so these specifications keep every stored
\* time relative to now: when time passes the clock stays and the stored
\* times move back by the step.  Time passes in steps of StoreTickStep
\* seconds, wherever the handlers and the cleanup task are, at most
\* MaxSweepTicks times during one sweep.  A time more than MaxSweepTicks + 1
\* steps in the past is kept at MaxSweepTicks + 1 steps in the past: it is
\* earlier than the time of every sweep in progress; a sleep that has ended
\* is kept at now.  PROXIES_URL is not set (direct connections).

\* the earliest time kept
Horizon == clock - (MaxSweepTicks + 1) * StoreTickStep

\* a stored time after StoreTickStep seconds have passed
Earlier(t) == IF t - StoreTickStep < Horizon THEN Horizon ELSE t - StoreTickStep

\* the end of a sleep after StoreTickStep seconds have passed
EarlierWake(t) == IF t - StoreTickStep < clock THEN clock ELSE t - StoreTickStep

\* the text of a marker after StoreTickStep seconds have passed
EarlierMarker(text) ==
    IF FromIsoFormat(text).ok THEN IsoFormat(Earlier(FromIsoFormat(text).value)) ELSE text

\* the cleanup task is inside a sweep (lines 46-62)
InSweep == cpc \in {"scan", "rmtree", "unlink"}

\* StoreTickStep seconds pass
StoreTick ==
    /\ InSweep => clock - cnow < MaxSweepTicks * StoreTickStep
    /\ wake' = IF cpc = "off" THEN wake ELSE EarlierWake(wake)
    /\ cnow' = IF InSweep THEN cnow - StoreTickStep ELSE cnow
    /\ expiry_time' = [t \in Handlers |->
                         IF pc[t] \in {"idle", "attempt", "select", "fetch", "backoff", "sleep",
                                       "broke", "exhausted", "open_marker", "done"}
                         THEN expiry_time[t] ELSE Earlier(expiry_time[t])]
    /\ sleep_end' = [t \in Handlers |->
                       IF pc[t] = "sleep" THEN EarlierWake(sleep_end[t]) ELSE sleep_end[t]]
    /\ dirs' = [c \in Shortcodes |-> [dirs[c] EXCEPT !.marker = EarlierMarker(dirs[c].marker)]]
    /\ UNCHANGED <<clock, started, fit_times, poolVars, raceVars, pc, shortcode, attempt,
                   last_exception, input_path, response, served, elapsed, cpc, citems, centries>>

\* The store: requests for one post; the download succeeds, for a post with
\* or without a video, or is refused by the provider; the transcoding
\* succeeds or fails.  With no proxy source set the pool is empty and every
\* get_proxy call returns at its first statement.
StoreOutcomes == {"ok_video", "ok_image", "insta"}

StoreRequest(t) ==
    \/ Select(t)
    \/ \E o \in StoreOutcomes : Fetch(t, o)
    \/ AfterDownload(t)

NextStore ==
    \/ Startup(StartupTexts)
    \/ \E t \in Handlers : Receive(t, UrlPost) \/ StoreRequest(t)
    \/ Cleanup
    \/ StoreTick

SpecStore == InitDirect /\ [][NextStore]_vars

\* The sweep over several directories: requests for two posts, served
\* without a failure, while the examinations of the sweep can meet errors of
\* the file system
SweepUrls == {UrlReel, UrlPost}

NextSweep ==
    \/ Startup(StartupTexts)
    \/ \E t \in Handlers :
         \/ \E u \in SweepUrls : Receive(t, u)
         \/ PlainRequest(t)
    \/ Cleanup
    \/ ExamineError
    \/ StoreTick

SpecSweep == InitDirect /\ [][NextSweep]_vars

\* Reclamation: requests for one post, served without a failure of the
\* download or of the encoder
NextReclaim ==
    \/ Startup(StartupTexts)
    \/ \E t \in Handlers : Receive(t, UrlPost) \/ PlainRequest(t)
    \/ Cleanup
    \/ StoreTick

\* time passes; the cleanup task is a task of the event loop that awaits
\* nothing but its sleep: once its sleep is over it runs, and a sweep it has
\* begun runs to its end; the thread of a request runs until the handler
\* returns
SpecReclaim ==
    /\ InitDirect /\ [][NextReclaim]_vars
    /\ WF_vars(StoreTick)
    /\ WF_vars(Cleanup)
    /\ \A t \in Handlers : WF_vars(PlainRequest(t))

----------------------------------------------------------------------------
(* Properties of the pool used by one caller at a time (SpecPool) *)

\* C9: with a pool of a single proxy and calls inside one window (no more
\* than 60 seconds since last_used), every get_proxy returns the proxy; the
\* counter rises by one per call while it is below 10 (first-fit branch) and
\* stays at 10 afterwards, when the proxy is returned by the degrade branch.
Thm_C9 ==
    [][ (GetProxy /\ Len(proxies) = 1 /\ proxies[1] \in DOMAIN proxy_stats
           /\ clock - proxy_stats[proxies[1]].last_used <= 60)
        => LET p == proxies[1]
               c == proxy_stats[p].requests_this_min
           IN /\ c <= 10
              /\ ret'.proxy = p
              /\ proxy_stats'[p].requests_this_min = (IF c < 10 THEN c + 1 ELSE 10)
              /\ ret'.branch = (IF c < 10 THEN "first_fit" ELSE "degrade") ]_vars

Wit_C9 ==
    /\ Len(proxies) = 1
    /\ ret.proxy = proxies[1]
    /\ ret.branch = "degrade"
    /\ proxy_stats[proxies[1]].requests_this_min = 10
    /\ clock - proxy_stats[proxies[1]].last_used <= 60

\* C10: a get_proxy that returns a proxy whose last_used is more than 60
\* seconds old returns it by the first-fit branch and leaves its record at
\* counter 1 and last_used = the time of the call, whatever the stale counter.
Thm_C10 ==
    [][ GetProxy
        => \A p \in DOMAIN proxy_stats :
             (ret'.proxy = p /\ clock - proxy_stats[p].last_used > 60)
             => /\ ret'.branch = "first_fit"
                /\ proxy_stats'[p] = [last_used |-> clock, requests_this_min |-> 1] ]_vars

Wit_C10 ==
    /\ ret.branch = "first_fit"
    /\ ret.stale = 10
    /\ proxy_stats[ret.proxy] = [last_used |-> clock, requests_this_min |-> 1]

\* the elements of a list
Members(list) == { list[i] : i \in 1..Len(list) }

\* C11: get_proxy returns None exactly when the list of the pool is empty;
\* with a list that is not empty it returns a proxy of the list (the list
\* before and after the call hold the same proxies), also when the scan found
\* every proxy at the ceiling.
Thm_C11 ==
    [][ GetProxy
        => /\ (ret'.proxy = None) <=> (proxies = <<>>)
           /\ proxies /= <<>>
              => /\ ret'.proxy \in Members(proxies)
                 /\ ret'.proxy \in Members(proxies')
                 /\ ret'.branch \in {"first_fit", "degrade"} ]_vars

\* a call on a pool of two proxies, both at the ceiling inside their window,
\* returned one of them
Wit_C11 ==
    /\ Len(proxies) = 2
    /\ proxies[1] /= proxies[2]
    /\ ret.branch = "degrade"
    /\ ret.proxy \in Members(proxies)
    /\ \A p \in Members(proxies) :
         proxy_stats[p].requests_this_min = 10 /\ clock - proxy_stats[p].last_used <= 60

\* C12: a fetch_proxies that finds no source configured, or whose request
\* fails, returns normally after logging it, with the list and the usage
\* records exactly as they were.
Thm_C12 ==
    [][ (FetchProxies /\ last_fetch'.outcome \in {"skipped", "failed"})
        => /\ proxies' = proxies
           /\ proxy_stats' = proxy_stats
           /\ (last_fetch'.outcome = "skipped") <=> (proxies_url = "") ]_vars

\* the last fetch failed and the pool still holds the two proxies loaded
\* before, with the usage they have accumulated
Wit_C12 ==
    /\ last_fetch.outcome = "failed"
    /\ Len(proxies) = 2
    /\ proxies[1] /= proxies[2]
    /\ \E p \in DOMAIN proxy_stats : proxy_stats[p].requests_this_min > 0

----------------------------------------------------------------------------
(* Properties of the usage windows (SpecWindow) *)

\* C19: with one caller at a time, no proxy is returned by the first-fit
\* branch more than 10 times in the 60 seconds up to any moment; a call takes
\* the degrade branch only when every proxy of the pool is at the ceiling
\* with a window that has not expired, and it changes no record.
Thm_C19 ==
    /\ [](\A p \in DOMAIN fit_times : Len(Recent(fit_times[p], clock)) <= 10)
    /\ [][ (WindowGetProxy /\ ret'.branch = "degrade")
           => /\ \A p \in Members(proxies) :
                   /\ proxy_stats[p].requests_this_min = 10
                   /\ clock - proxy_stats[p].last_used <= 60
              /\ proxy_stats' = proxy_stats ]_vars

\* a proxy of a pool of two has 10 first-fit returns in the last 60 seconds,
\* made at two different times, and the last call took the degrade branch
Wit_C19 ==
    /\ Len(proxies) = 2
    /\ ret.branch = "degrade"
    /\ \E p \in DOMAIN fit_times :
         /\ Len(Recent(fit_times[p], clock)) = 10
         /\ fit_times[p][1] /= fit_times[p][10]

----------------------------------------------------------------------------
(* Properties of the retry loop (SpecRetry, SpecRetryLive) and
   of the URL pattern (SpecUrls) *)

\* C1: a request that leaves the retry loop by a successful attempt goes on to
\* the materialization of the artifact, whatever connection failures the
\* earlier attempts met: it never ends at the check that follows the loop.
Bad_C1 == [][ \A t \in Handlers : pc[t] = "broke" => pc'[t] \in {"broke", "open_marker"} ]_vars

\* C7 as claimed: after 20 connection failures the request ends with 429 when
\* the last failure carried 401, 403 or 429, and with 502 otherwise.
Bad_C7 ==
    [][ \A t \in Handlers :
          (pc[t] = "exhausted" /\ pc'[t] = "done")
          => response'[t].status
               = (IF last_exception[t] \in {"401", "403", "429"} THEN 429 ELSE 502) ]_vars

\* C8 as claimed: a provider failure that is not connection-class ends the
\* request at once with status 404.
Bad_C8 ==
    [][ \A t \in Handlers :
          Fetch(t, "insta") => (pc'[t] = "done" /\ response'[t].status = 404) ]_vars

\* C16: a request makes at most 20 attempts (loop indices 0..19) and ends;
\* the index advances by one, and only at the end of the sleep that follows
\* an attempt which ended in a connection failure and was not the 20th; that
\* sleep, of one to three seconds, is the next thing the request does after
\* the failure, and the next attempt is the next thing it does after the
\* sleep; every attempt enters get_proxy exactly once, is returned None by
\* an empty pool and a proxy of the pool otherwise, then waits for the
\* network, and ends in the break, a fatal failure or a connection failure;
\* a request that has left the loop, by the break, by a fatal failure or by
\* the end of the range, never comes back to an attempt; the pool is touched
\* only by the get_proxy call of an attempt, never after a success or a
\* fatal failure.
Thm_C16 ==
    /\ [][ /\ \A t \in Handlers :
                /\ attempt'[t] \in 0..(max_retries - 1)
                /\ attempt'[t] > attempt[t]
                     => /\ pc[t] = "sleep" /\ pc'[t] = "attempt"
                        /\ attempt'[t] = attempt[t] + 1
                        /\ last_exception[t] \in ConnSignals
                /\ (pc[t] = "backoff" /\ pc'[t] /= "backoff")
                     => /\ pc'[t] = "sleep" /\ attempt'[t] = attempt[t]
                        /\ sleep_end'[t] - clock \in 1..MaxSleep
                /\ (pc[t] = "sleep" /\ pc'[t] /= "sleep")
                     => /\ pc'[t] = "attempt" /\ attempt'[t] = attempt[t] + 1
                        /\ clock >= sleep_end[t]
                /\ (pc[t] = "attempt" /\ pc'[t] /= "attempt")
                     => /\ attempt'[t] = attempt[t]
                        /\ tpc[t] = "idle"
                        /\ IF proxies = <<>>
                           THEN pc'[t] = "fetch" /\ ret'.proxy = None /\ tpc'[t] = "idle"
                           ELSE pc'[t] = "select" /\ tpc'[t] /= "idle"
                /\ (pc[t] = "select" /\ pc'[t] /= "select")
                     => /\ pc'[t] = "fetch" /\ attempt'[t] = attempt[t]
                        /\ tpc[t] /= "idle" /\ tpc'[t] = "idle"
                        /\ ret'.proxy \in Members(proxies)
                /\ (pc[t] = "select" /\ pc'[t] = "select") => tpc'[t] /= "idle"
                /\ (pc[t] = "fetch" /\ pc'[t] /= "fetch")
                     => \/ pc'[t] = "broke"
                        \/ pc'[t] = "done" /\ response'[t].status = 500
                        \/ /\ pc'[t] = "backoff" /\ attempt[t] < max_retries - 1
                           /\ last_exception'[t] \in ConnSignals
                        \/ /\ pc'[t] = "exhausted" /\ attempt[t] = max_retries - 1
                           /\ last_exception'[t] \in ConnSignals
                /\ (pc'[t] = "select" /\ pc[t] /= "select") => pc[t] = "attempt"
                /\ (pc'[t] = "fetch" /\ pc[t] /= "fetch") => pc[t] \in {"attempt", "select"}
                /\ (pc'[t] = "attempt" /\ pc[t] /= "attempt") => pc[t] \in {"idle", "done", "sleep"}
           /\ \A t \in Handlers : tpc'[t] /= tpc[t] => pc[t] \in {"attempt", "select"}
           /\ (started /\ tpc' = tpc
                 /\ \A t \in Handlers : ~(pc[t] = "attempt" /\ pc'[t] /= "attempt"))
                => UNCHANGED <<poolVars, callVars>> ]_vars
    /\ \A t \in Handlers : (pc[t] = "attempt") ~> (pc[t] = "done")

\* the 20th attempt of the only request so far is about to be made: 19
\* attempts failed with connection errors and each of them selected the proxy
Wit_C16 ==
    /\ served = 1
    /\ \E t \in Handlers :
         /\ pc[t] = "attempt"
         /\ attempt[t] = max_retries - 1
         /\ last_exception[t] \in ConnSignals
    /\ \E p \in DOMAIN proxy_stats : ret = [proxy |-> p, branch |-> "degrade", stale |-> 10]

\* the URLs of the model that are post or reel URLs of instagram.com, with
\* the identifier each of them names
PostUrls == (UrlReel :> <<"A">>) @@ (UrlPost :> <<"B">>)

\* C15: a request for a post or reel URL of instagram.com goes on with
\* exactly the identifier of the URL; a request for any other URL, also one
\* of another host that carries such a path elsewhere, ends with status 400.
Bad_C15 ==
    [][ \A t \in Handlers : \A u \in Urls :
          Receive(t, u)
          => IF u \in DOMAIN PostUrls
             THEN pc'[t] = "attempt" /\ shortcode'[t] = PostUrls[u]
             ELSE pc'[t] = "done" /\ response'[t].status = 400 ]_vars

----------------------------------------------------------------------------
(* Properties of the store and the cleanup loop (SpecStore, SpecSweep,
   SpecReclaim) *)

\* C2 as claimed: a directory that holds an expiry marker holds a normalized
\* video under the name of the download.
Bad_C2 ==
    \A c \in Shortcodes :
        (dirs[c].exists /\ dirs[c].has_marker) => dirs[c].mp4[0] = "processed"

\* the step of thread t is a failure of the transcoding
TranscodeFails(t) ==
    /\ pc[t] \in {"transcode", "encoding", "unlink", "rename"}
    /\ pc'[t] = "done"

\* C3 as claimed: a failed transcoding leaves no expiry marker in the directory.
Bad_C3 ==
    [][ \A t \in Handlers : TranscodeFails(t) => ~dirs'[shortcode[t]].has_marker ]_vars

\* C4: a sweep condemns the directory it examines if and only if the
\* directory holds a marker whose text is a timestamp strictly earlier than
\* the time of the sweep; a directory disappears only when the sweep removes
\* a directory it condemned, and a condemned directory is gone when the sweep
\* goes on to its next item.
Bad_C4 ==
    [][ /\ (cpc = "scan" /\ citems /= <<>> /\ (cpc' /= cpc \/ citems' /= citems))
           => LET d == dirs[Head(citems)] IN
              (cpc' = "rmtree") <=>
                 (d.exists /\ d.has_marker /\ Len(d.marker) = 2 /\ d.marker[2] < cnow)
        /\ \A c \in Shortcodes :
             (dirs[c].exists /\ ~dirs'[c].exists) => (cpc = "unlink" /\ Head(citems) = c)
        /\ (cpc \in {"rmtree", "unlink"} /\ cpc' = "scan") => ~dirs'[Head(citems)].exists ]_vars

\* the step of thread t is the success of its request
Succeeds(t) ==
    /\ pc[t] = "caption"
    /\ pc'[t] = "done"

\* C14 as claimed: when a retrieval succeeds, the marker of its directory
\* holds the time of the success plus one hour.
Bad_C14 ==
    [][ \A t \in Handlers :
          Succeeds(t) => dirs'[shortcode[t]].marker = IsoFormat(clock + ExpiryDelay) ]_vars

\* C5: a request whose directory was deleted by the cleanup loop before the
\* marker is opened does not fail: the directory is recreated and the handler
\* goes on.
Bad_C5 ==
    [][ \A t \in Handlers :
          (pc[t] = "open_marker" /\ ~dirs[shortcode[t]].exists) => pc'[t] /= "done" ]_vars

\* C17 as claimed: an error on the directory the sweep examines does not end
\* the sweep: the sweep goes to its sleep only when no directory of its
\* listing that it has not visited yet holds a marker whose time is before
\* the time of the sweep.
Bad_C17 ==
    [][ (cpc = "scan" /\ cpc' = "sleep")
          => \A i \in 2..Len(citems) : ~Condemned(dirs[citems[i]], cnow) ]_vars

\* the marker time of directory c has passed
MarkerPassed(c) ==
    /\ dirs[c].exists
    /\ dirs[c].has_marker
    /\ FromIsoFormat(dirs[c].marker).ok
    /\ FromIsoFormat(dirs[c].marker).value < clock

\* a request has ended in success and no request has taken its thread since
SomeSuccess == \E t \in Handlers : response[t].status = 200

\* C18: a directory whose marker time has passed is deleted, unless a
\* retrieval of the post succeeds (the response of a thread is "running" from
\* the arrival of its request on, so a 200 that follows a state without 200
\* is a success that came after that state).
Bad_C18 ==
    \A c \in Shortcodes :
        (MarkerPassed(c) /\ ~SomeSuccess) ~> (~dirs[c].exists \/ SomeSuccess)

----------------------------------------------------------------------------
(* Properties of get_proxy under concurrent callers (SpecRace) *)

\* C6: no update of a usage record is lost: once every thread has returned,
\* the counter of each proxy equals the number of first-fit selections of
\* that proxy (all of them fall in one window: the clock does not advance).
Bad_C6 ==
    (started /\ \A t \in Threads : tpc[t] = "idle")
    => \A p \in DOMAIN proxy_stats : proxy_stats[p].requests_this_min = fits[p]

\* how often p occurs in a list
Count(list, p) == Cardinality({ i \in 1..Len(list) : list[i] = p })

\* C13: get_proxy does not change which proxies the pool holds: once every
\* thread has returned, the list holds exactly the proxies the last
\* fetch_proxies loaded, each as often as it was loaded.
Bad_C13 ==
    (started /\ \A t \in Threads : tpc[t] = "idle")
    => \A p \in Members(proxies) \cup Members(last_fetch.loaded) :
         Count(proxies, p) = Count(last_fetch.loaded, p)

\* C20: in every state, also while concurrent get_proxy calls interleave,
\* the counter of each usage record is between 0 and 10.
Bad_C20 ==
    \A p \in DOMAIN proxy_stats : proxy_stats[p].requests_this_min \in 0..10

====
